---- MODULE Spec2Model ----
(***************************************************************************)
(* Railway platform display (src/app.js): the schedule store, the status   *)
(* derivation driven by the virtual clock, the greedy platform assignment  *)
(* and the announcement log.                                               *)
(*                                                                         *)
(* Times are whole minutes of the day.  A train is a record                *)
(*   [id, trainNo, arrive, depart, delayMin, status, platform,             *)
(*    assignedPlatform]                                                    *)
(* where platform is <<>> for null and <<p>> for the number p, and         *)
(* assignedPlatform is 0 while the property is still undefined.            *)
(***************************************************************************)
EXTENDS Integers, Sequences, FiniteSets, TLC

VARIABLES trains, announcements, numPlatforms, sim, nextId, lastOp, ops, pc

vars == <<trains, announcements, numPlatforms, sim, nextId, lastOp, ops, pc>>

----------------------------------------------------------------------------
(* Bounds of the model *)

MaxTrains == 2

MaxOps == 3

MaxPlatforms == 2

MaxLoad == 3
(* Handler calls in a run that fills the announcement log. *)
LogOps == 7
(* Ticks and switch changes in a run of the simulation loop. *)
ClockOps == 8

(* Program constants *)

BoardingWindow == 5

LogCap == 6

DayMinutes == 24 * 60

MinPlatformSetting == 1

MaxPlatformSetting == 20

----------------------------------------------------------------------------
(* Utilities *)

Max(a, b) == IF a >= b THEN a ELSE b

Min(a, b) == IF a <= b THEN a ELSE b

clampHigh(n, lo, hi) == Min(hi, n)

clamp(n, lo, hi) == Max(lo, Min(hi, n))

Digit(d) == <<"0", "1", "2", "3", "4", "5", "6", "7", "8", "9">>[d + 1]

pad2NoPad(n) == IF n < 10 THEN <<Digit(n)>> ELSE <<Digit(n \div 10), Digit(n % 10)>>

pad2(n) == <<Digit(n \div 10), Digit(n % 10)>>

(* The remainder operator of the language: the result has the sign of a. *)
rem(a, b) == IF a >= 0 THEN a % b ELSE 0 - ((0 - a) % b)

toHHMM(minutes) ==
  LET m  == rem(rem(minutes, DayMinutes) + DayMinutes, DayMinutes)
      h  == m \div 60
      mm == m % 60
  IN  pad2(h) \o <<":">> \o pad2(mm)

DigitValue(c) == CHOOSE d \in 0..9 : Digit(d) = c

(* parseInt of a run of decimal digits. *)
RECURSIVE parseInt(_)
parseInt(str) ==
  IF Len(str) = 0 THEN 0
  ELSE parseInt(SubSeq(str, 1, Len(str) - 1)) * 10 + DigitValue(str[Len(str)])

(* "HH:MM" as a sequence of characters, split at the colon. *)
toMinutes(hhmm) ==
  LET colon == CHOOSE k \in 1..Len(hhmm) : hhmm[k] = ":"
      h     == parseInt(SubSeq(hhmm, 1, colon - 1))
      m     == parseInt(SubSeq(hhmm, colon + 1, Len(hhmm)))
  IN  h * 60 + m

Status == {"ON_TIME", "DELAYED", "BOARDING", "DEPARTED", "ARRIVED", "CANCELLED"}

----------------------------------------------------------------------------
(* Scheduling and assignment *)

timeWithDelayUnlessDelayed(train) ==
  [arrive |-> train.arrive + (IF train.status # "DELAYED" THEN train.delayMin ELSE 0),
   depart |-> train.depart + (IF train.status # "DELAYED" THEN train.delayMin ELSE 0)]

timeWithDelay(train) ==
  [arrive |-> train.arrive + (IF train.status = "DELAYED" THEN train.delayMin ELSE 0),
   depart |-> train.depart + (IF train.status = "DELAYED" THEN train.delayMin ELSE 0)]

intervalsOverlapClosed(aStart, aEnd, bStart, bEnd) == aStart <= bEnd /\ bStart <= aEnd

intervalsOverlap(aStart, aEnd, bStart, bEnd) == aStart < bEnd /\ bStart < aEnd

(* Array.prototype.sort with a numeric comparator is stable: the element  *)
(* at position i of the input lands after every element with a smaller    *)
(* key and after every earlier element with the same key.                 *)
StableOrder(keys) ==
  LET n == Len(keys)
      Rank(i) == Cardinality({j \in 1..n : keys[j] < keys[i]
                                           \/ (keys[j] = keys[i] /\ j < i)}) + 1
  IN  [p \in 1..n |-> CHOOSE i \in 1..n : Rank(i) = p]

(* platformEnd holds <<>> for -Infinity and <<t>> for the time t. *)
EndLeq(e, t) == e = <<>> \/ e[1] <= t

EndLess(e, f) == f # <<>> /\ (e = <<>> \/ e[1] < f[1])

EndMax(e, t) == IF e = <<>> THEN <<t>> ELSE <<Max(e[1], t)>>

ManualFreeAlways(ts, i) == TRUE

(* The test of the manual path: no other train of the list carries the    *)
(* same request with an overlapping effective window.                     *)
ManualFree(ts, i) ==
  LET twd == timeWithDelay(ts[i])
  IN  ~ \E j \in 1..Len(ts) :
          /\ j # i
          /\ ts[j].platform = ts[i].platform
          /\ intervalsOverlap(timeWithDelay(ts[j]).arrive, timeWithDelay(ts[j]).depart,
                              twd.arrive, twd.depart)

ManualHonored(ts, i) == ts[i].platform # <<>> /\ ManualFree(ts, i)

(* First platform (0-based) that is free at the arrival, or -1. *)
FirstFree(platformEnd, n, arrive) ==
  IF \E i \in 0..(n - 1) : EndLeq(platformEnd[i + 1], arrive)
  THEN CHOOSE i \in 0..(n - 1) :
         /\ EndLeq(platformEnd[i + 1], arrive)
         /\ \A k \in 0..(i - 1) : ~EndLeq(platformEnd[k + 1], arrive)
  ELSE -1

(* The platform that frees up earliest, lowest index on ties. *)
EarliestFree(platformEnd, n) ==
  CHOOSE b \in 0..(n - 1) :
    /\ \A k \in 0..(n - 1) : ~EndLess(platformEnd[k + 1], platformEnd[b + 1])
    /\ \A k \in 0..(b - 1) : EndLess(platformEnd[b + 1], platformEnd[k + 1])

ChoosePlatform(ts, i, platformEnd, n) ==
  IF ManualHonored(ts, i)
  THEN clamp(ts[i].platform[1], 1, n) - 1
  ELSE LET f == FirstFree(platformEnd, n, timeWithDelay(ts[i]).arrive)
       IN  IF f # -1 THEN f ELSE EarliestFree(platformEnd, n)

UpdateEndSkip(platformEnd, assigned, depart) == platformEnd

UpdateEnd(platformEnd, assigned, depart) ==
  [platformEnd EXCEPT ![assigned + 1] = EndMax(platformEnd[assigned + 1], depart)]

RECURSIVE AssignFromSkipManual(_, _, _, _, _, _)
AssignFromSkipManual(ts, order, n, k, platformEnd, result) ==
  IF k > Len(ts) THEN result
  ELSE LET i        == order[k]
           assigned == ChoosePlatform(ts, i, platformEnd, n)
           ends     == IF ManualHonored(ts, i) THEN platformEnd
                       ELSE UpdateEnd(platformEnd, assigned, timeWithDelay(ts[i]).depart)
       IN  AssignFromSkipManual(ts, order, n, k + 1, ends,
                                [result EXCEPT ![i].assignedPlatform = assigned + 1])

RECURSIVE AssignFrom(_, _, _, _, _, _)
AssignFrom(ts, order, n, k, platformEnd, result) ==
  IF k > Len(ts) THEN result
  ELSE LET i        == order[k]
           assigned == ChoosePlatform(ts, i, platformEnd, n)
       IN  AssignFrom(ts, order, n, k + 1,
                      UpdateEnd(platformEnd, assigned, timeWithDelay(ts[i]).depart),
                      [result EXCEPT ![i].assignedPlatform = assigned + 1])

assignPlatformsUnsorted(ts, n) ==
  AssignFrom(ts, [i \in 1..Len(ts) |-> i], n, 1, [i \in 1..n |-> <<>>], ts)

(* assignPlatforms writes assignedPlatform on the train objects in place; *)
(* the list itself keeps its order (the sorted copy is discarded).        *)
assignPlatforms(ts, n) ==
  LET order == StableOrder([i \in 1..Len(ts) |-> timeWithDelay(ts[i]).arrive])
  IN  AssignFrom(ts, order, n, 1, [i \in 1..n |-> <<>>], ts)

----------------------------------------------------------------------------
(* Status derivation *)

deriveStatusDepartFirst(tr, vm) ==
  LET twd == timeWithDelay(tr)
  IN  IF vm >= twd.depart + BoardingWindow THEN "DEPARTED"
      ELSE IF tr.status = "CANCELLED" THEN "CANCELLED"
      ELSE IF vm >= twd.depart - BoardingWindow /\ vm < twd.depart + BoardingWindow
           THEN "BOARDING"
      ELSE IF vm >= twd.arrive /\ vm < twd.depart - BoardingWindow THEN "ARRIVED"
      ELSE IF tr.delayMin > 0 THEN "DELAYED"
      ELSE "ON_TIME"

deriveStatusEarlyDepart(tr, vm) ==
  LET twd == timeWithDelay(tr)
  IN  IF tr.status = "CANCELLED" THEN "CANCELLED"
      ELSE IF vm >= twd.depart THEN "DEPARTED"
      ELSE IF vm >= twd.depart - BoardingWindow /\ vm < twd.depart THEN "BOARDING"
      ELSE IF vm >= twd.arrive /\ vm < twd.depart - BoardingWindow THEN "ARRIVED"
      ELSE IF tr.delayMin > 0 THEN "DELAYED"
      ELSE "ON_TIME"

deriveStatus(tr, vm) ==
  LET twd == timeWithDelay(tr)
  IN  IF tr.status = "CANCELLED" THEN "CANCELLED"
      ELSE IF vm >= twd.depart + BoardingWindow THEN "DEPARTED"
      ELSE IF vm >= twd.depart - BoardingWindow /\ vm < twd.depart + BoardingWindow
           THEN "BOARDING"
      ELSE IF vm >= twd.arrive /\ vm < twd.depart - BoardingWindow THEN "ARRIVED"
      ELSE IF tr.delayMin > 0 THEN "DELAYED"
      ELSE "ON_TIME"

sortByDepart(ts) ==
  LET order == StableOrder([i \in 1..Len(ts) |-> timeWithDelay(ts[i]).depart])
  IN  [p \in 1..Len(ts) |-> ts[order[p]]]

computeDerived(ts, vm, n) ==
  LET withStatus == [i \in 1..Len(ts) |-> [ts[i] EXCEPT !.status = deriveStatus(ts[i], vm)]]
  IN  sortByDepart(assignPlatforms(withStatus, n))

----------------------------------------------------------------------------
(* Announcements: an entry is [ts, kind, trainNo, arg]; arg is <<>> when  *)
(* the message has no number (or shows "TBD") and <<n>> otherwise.        *)

announceNoCap(log, vm, kind, trainNo, arg) ==
  <<[ts |-> toHHMM(vm), kind |-> kind, trainNo |-> trainNo, arg |-> arg]>> \o log

announce(log, vm, kind, trainNo, arg) ==
  LET entry   == [ts |-> toHHMM(vm), kind |-> kind, trainNo |-> trainNo, arg |-> arg]
      shifted == <<entry>> \o log
  IN  SubSeq(shifted, 1, Min(LogCap, Len(shifted)))

----------------------------------------------------------------------------
(* Inputs *)

InitVMs == {479, 494}

AddInput(no, a, d, dl, p) ==
  [trainNo |-> no, arrive |-> a, depart |-> d, delay |-> dl, status |-> "ON_TIME",
   platform |-> p]

AddInputs ==
  { AddInput("T1", 480, 500, 0, <<>>),
    AddInput("T2", 480, 490, 0, <<>>),
    AddInput("T2", 480, 490, 0, <<2>>),
    AddInput("T3", 490, 500, 5, <<2>>),
    AddInput("T4", 490, 490, 0, <<0>>),
    AddInput("T5", 480, 500, 5, <<MaxPlatforms + 1>>) }

UpdateInputs ==
  { [trainNo |-> "T6", arrive |-> 490, depart |-> 500, delayMin |-> 0,
     status |-> "ON_TIME", platform |-> <<>>],
    [trainNo |-> "T7", arrive |-> 480, depart |-> 500, delayMin |-> 5,
     status |-> "DELAYED", platform |-> <<2>>] }

DelayMinutes == {5}

TickDts == {1000, 5000, 21000}

Speeds == {1, 2}

PlatformInputs == {0, MaxPlatforms}

----------------------------------------------------------------------------
(* Store operations *)

Ids == 1..nextId

find(ts, id) ==
  IF \E i \in 1..Len(ts) : ts[i].id = id
  THEN CHOOSE i \in 1..Len(ts) : ts[i].id = id /\ \A k \in 1..(i - 1) : ts[k].id # id
  ELSE 0

(* ops counts the handler calls a run may still make. *)
Op(name, id) == [op |-> name, id |-> id]

Step(name, id) ==
  /\ pc = "ready"
  /\ ops > 0
  /\ ops' = ops - 1
  /\ lastOp' = Op(name, id)
  /\ pc' = pc

addTrain(data) ==
  LET train == [id |-> nextId, trainNo |-> data.trainNo, arrive |-> data.arrive,
                depart |-> data.depart, delayMin |-> data.delay, status |-> data.status,
                platform |-> data.platform, assignedPlatform |-> 0]
  IN  /\ Len(trains) < MaxTrains
      /\ Step("add", nextId)
      /\ nextId' = nextId + 1
      /\ announcements' = announce(announcements, sim.virtualMinutes, "scheduled",
                                   train.trainNo, train.platform)
      /\ trains' = computeDerived(Append(trains, train), sim.virtualMinutes, numPlatforms)
      /\ UNCHANGED <<numPlatforms, sim>>

assign(tr, updates) ==
  [f \in DOMAIN tr |-> IF f \in DOMAIN updates THEN updates[f] ELSE tr[f]]

updateTrain(id, updates) ==
  LET i == find(trains, id)
  IN  IF i = 0
      THEN /\ Step("update", id)
           /\ UNCHANGED <<trains, announcements, numPlatforms, sim, nextId>>
      ELSE /\ Step("update", id)
           /\ announcements' = announce(announcements, sim.virtualMinutes, "updated",
                                        assign(trains[i], updates).trainNo, <<>>)
           /\ trains' = computeDerived([trains EXCEPT ![i] = assign(trains[i], updates)],
                                       sim.virtualMinutes, numPlatforms)
           /\ UNCHANGED <<numPlatforms, sim, nextId>>

delayTrain(id, minutes) ==
  LET i == find(trains, id)
  IN  IF i = 0
      THEN /\ Step("delay", id)
           /\ UNCHANGED <<trains, announcements, numPlatforms, sim, nextId>>
      ELSE /\ Step("delay", id)
           /\ announcements' = announce(announcements, sim.virtualMinutes, "delayed",
                                        trains[i].trainNo, <<minutes>>)
           /\ trains' = computeDerived(
                          [trains EXCEPT ![i].delayMin = trains[i].delayMin + minutes,
                                         ![i].status = "DELAYED"],
                          sim.virtualMinutes, numPlatforms)
           /\ UNCHANGED <<numPlatforms, sim, nextId>>

cancelTrainNoGuard(id) ==
  LET i == find(trains, id)
  IN  /\ Step("cancel", id)
      /\ announcements' = announce(announcements, sim.virtualMinutes, "cancelled",
                                   IF i = 0 THEN "" ELSE trains[i].trainNo, <<>>)
      /\ trains' = computeDerived(
                     [k \in 1..Len(trains) |->
                        IF k = i THEN [trains[k] EXCEPT !.status = "CANCELLED"] ELSE trains[k]],
                     sim.virtualMinutes, numPlatforms)
      /\ UNCHANGED <<numPlatforms, sim, nextId>>

cancelTrain(id) ==
  LET i == find(trains, id)
  IN  IF i = 0
      THEN /\ Step("cancel", id)
           /\ UNCHANGED <<trains, announcements, numPlatforms, sim, nextId>>
      ELSE /\ Step("cancel", id)
           /\ announcements' = announce(announcements, sim.virtualMinutes, "cancelled",
                                        trains[i].trainNo, <<>>)
           /\ trains' = computeDerived([trains EXCEPT ![i].status = "CANCELLED"],
                                       sim.virtualMinutes, numPlatforms)
           /\ UNCHANGED <<numPlatforms, sim, nextId>>

clearAllKeepLog ==
  /\ Step("clear", 0)
  /\ announcements' = announce(announcements, sim.virtualMinutes, "cleared", "", <<>>)
  /\ trains' = computeDerived(<<>>, sim.virtualMinutes, numPlatforms)
  /\ UNCHANGED <<numPlatforms, sim, nextId>>

clearAll ==
  /\ Step("clear", 0)
  /\ announcements' = announce(<<>>, sim.virtualMinutes, "cleared", "", <<>>)
  /\ trains' = computeDerived(<<>>, sim.virtualMinutes, numPlatforms)
  /\ UNCHANGED <<numPlatforms, sim, nextId>>

SeedBase == toMinutes(<<"0", "8", ":", "0", "0">>)

SeedTrains(first) ==
  LET T(k, no, a, d, dl, st, p) ==
        [id |-> first + k, trainNo |-> no, arrive |-> SeedBase + a, depart |-> SeedBase + d,
         delayMin |-> dl, status |-> st, platform |-> p, assignedPlatform |-> 0]
  IN  << T(0, "12001", 10, 20, 0, "ON_TIME", <<1>>),
         T(1, "12002", 15, 30, 0, "ON_TIME", <<>>),
         T(2, "12003", 25, 40, 5, "DELAYED", <<2>>),
         T(3, "12004", 35, 50, 0, "ON_TIME", <<>>),
         T(4, "12005", 55, 70, 0, "ON_TIME", <<>>) >>

seed ==
  /\ Step("seed", 0)
  /\ nextId' = nextId + 5
  /\ announcements' = announce(announcements, sim.virtualMinutes, "seeded", "", <<>>)
  /\ trains' = computeDerived(SeedTrains(nextId), sim.virtualMinutes, numPlatforms)
  /\ UNCHANGED <<numPlatforms, sim>>

(* The change handlers of the settings controls; value is the number the *)
(* control's text converts to.                                           *)
setNumPlatforms(value) ==
  /\ Step("platforms", 0)
  /\ numPlatforms' = clamp(value, MinPlatformSetting, MaxPlatformSetting)
  /\ trains' = computeDerived(trains, sim.virtualMinutes, numPlatforms')
  /\ UNCHANGED <<announcements, sim, nextId>>

setAutoAdvance(checked) ==
  /\ Step("auto", 0)
  /\ sim' = [sim EXCEPT !.autoAdvance = checked]
  /\ UNCHANGED <<trains, announcements, numPlatforms, nextId>>

setSpeed(value) ==
  /\ Step("speed", 0)
  /\ sim' = [sim EXCEPT !.speed = value]
  /\ UNCHANGED <<trains, announcements, numPlatforms, nextId>>

----------------------------------------------------------------------------
(* Simulation loop *)

Abs(x) == IF x < 0 THEN -x ELSE x

shownPlatform(t) == IF t.platform # <<>> THEN t.platform ELSE <<t.assignedPlatform>>

RECURSIVE tickAnnounce(_, _, _, _)
tickAnnounce(ts, k, vm, log) ==
  IF k > Len(ts) THEN log
  ELSE LET t      == ts[k]
           depart == timeWithDelay(t).depart
           log1   == IF Abs(vm - (depart - BoardingWindow)) * 10 < 1
                     THEN announce(log, vm, "boarding", t.trainNo, shownPlatform(t))
                     ELSE log
           log2   == IF Abs(vm - depart) * 10 < 1
                     THEN announce(log1, vm, "departing", t.trainNo, shownPlatform(t))
                     ELSE log1
       IN  tickAnnounce(ts, k + 1, vm, log2)

tickNoStamp(dt) ==
  LET now == sim.lastTick + dt
      minutesToAdvance == (dt \div 1000) * sim.speed
      vm == (sim.virtualMinutes + minutesToAdvance) % DayMinutes
  IN  /\ Step("tick", 0)
      /\ IF sim.autoAdvance
         THEN /\ sim' = [sim EXCEPT !.lastTick = now, !.virtualMinutes = vm]
              /\ trains' = computeDerived(trains, vm, numPlatforms)
              /\ announcements' = tickAnnounce(trains', 1, vm, announcements)
         ELSE UNCHANGED <<sim, trains, announcements>>
      /\ UNCHANGED <<numPlatforms, nextId>>

tick(dt) ==
  LET now == sim.lastTick + dt
      minutesToAdvance == (dt \div 1000) * sim.speed
      vm == (sim.virtualMinutes + minutesToAdvance) % DayMinutes
  IN  /\ Step("tick", 0)
      /\ IF sim.autoAdvance
         THEN /\ sim' = [sim EXCEPT !.lastTick = now, !.virtualMinutes = vm]
              /\ trains' = computeDerived(trains, vm, numPlatforms)
              /\ announcements' = tickAnnounce(trains', 1, vm, announcements)
         ELSE /\ sim' = [sim EXCEPT !.lastTick = now]
              /\ UNCHANGED <<trains, announcements>>
      /\ UNCHANGED <<numPlatforms, nextId>>

----------------------------------------------------------------------------
(* The store after construction with no persisted trains *)

Init ==
  /\ trains = <<>>
  /\ announcements = <<>>
  /\ numPlatforms \in 1..MaxPlatforms
  /\ sim \in [virtualMinutes : InitVMs, autoAdvance : {TRUE}, speed : {1}, lastTick : {0}]
  /\ nextId = 1
  /\ lastOp = Op("init", 0)
  /\ ops = MaxOps
  /\ pc = "ready"

Next ==
  \/ \E data \in AddInputs : addTrain(data)
  \/ \E id \in Ids, updates \in UpdateInputs : updateTrain(id, updates)
  \/ \E id \in Ids, minutes \in DelayMinutes : delayTrain(id, minutes)
  \/ \E id \in Ids : cancelTrain(id)
  \/ clearAll
  \/ seed
  \/ \E value \in PlatformInputs : setNumPlatforms(value)
  \/ \E checked \in BOOLEAN \ {sim.autoAdvance} : setAutoAdvance(checked)
  \/ \E value \in Speeds \ {sim.speed} : setSpeed(value)
  \/ \E dt \in TickDts : tick(dt)

Spec == Init /\ [][Next]_vars

----------------------------------------------------------------------------
(* Start-up with persisted trains: load() restores the saved list and     *)
(* settings, then init() runs the first recomputation pass (renderAll).   *)

LoadVMs == {484}

LoadWindows == {<<480, 485>>, <<480, 490>>, <<490, 500>>, <<480, 500>>, <<490, 490>>}

LoadVariants ==
  { [delayMin |-> 0, status |-> "ON_TIME", platform |-> <<>>],
    [delayMin |-> 5, status |-> "DELAYED", platform |-> <<>>],
    [delayMin |-> 5, status |-> "DELAYED", platform |-> <<1>>],
    [delayMin |-> 0, status |-> "ON_TIME", platform |-> <<2>>] }

Persisted(w, v) ==
  [id |-> 0, trainNo |-> "T1", arrive |-> w[1], depart |-> w[2], delayMin |-> v.delayMin,
   status |-> v.status, platform |-> v.platform, assignedPlatform |-> 0]

PersistedTrains == {Persisted(w, v) : w \in LoadWindows, v \in LoadVariants}

PersistedLists ==
  UNION {[1..len -> PersistedTrains] : len \in 0..MaxLoad}

WithIds(ts) == [i \in 1..Len(ts) |-> [ts[i] EXCEPT !.id = i]]

InitLoad ==
  /\ \E ts \in PersistedLists : trains = WithIds(ts)
  /\ announcements = <<>>
  /\ numPlatforms \in 1..MaxPlatforms
  /\ sim \in [virtualMinutes : LoadVMs, autoAdvance : {TRUE}, speed : {1}, lastTick : {0}]
  /\ nextId = Len(trains) + 1
  /\ lastOp = Op("load", 0)
  /\ ops = 0
  /\ pc = "loaded"

init ==
  /\ pc = "loaded"
  /\ pc' = "ready"
  /\ trains' = computeDerived(trains, sim.virtualMinutes, numPlatforms)
  /\ lastOp' = Op("init", 0)
  /\ UNCHANGED <<announcements, numPlatforms, sim, nextId, ops>>

NextLoad == init

SpecLoad == InitLoad /\ [][NextLoad]_vars

----------------------------------------------------------------------------
(* A longer run of the handlers that announce, from the store after       *)
(* construction: enough calls for the log to pass its cap.                *)

LogVMs == {494}

LogInputs == {d \in AddInputs : d.trainNo = "T1"}

LogDts == {1000, 5000}

InitLog ==
  /\ trains = <<>>
  /\ announcements = <<>>
  /\ numPlatforms = MaxPlatforms
  /\ sim \in [virtualMinutes : LogVMs, autoAdvance : {TRUE}, speed : {1}, lastTick : {0}]
  /\ nextId = 1
  /\ lastOp = Op("init", 0)
  /\ ops = LogOps
  /\ pc = "ready"

NextLog ==
  \/ \E data \in LogInputs : addTrain(data)
  \/ \E id \in Ids : cancelTrain(id)
  \/ clearAll
  \/ \E dt \in LogDts : tick(dt)

SpecLog == InitLog /\ [][NextLog]_vars

----------------------------------------------------------------------------
(* The simulation loop over persisted trains: load(), init's first pass,  *)
(* then ticks, with the auto-advance switch as the only other input.      *)

ClockVMs == {479}

ClockWindows == {<<480, 490>>, <<490, 500>>}

ClockVariants ==
  { [delayMin |-> 0, status |-> "ON_TIME", platform |-> <<>>],
    [delayMin |-> 5, status |-> "DELAYED", platform |-> <<>>],
    [delayMin |-> 0, status |-> "CANCELLED", platform |-> <<>>] }

ClockTrains == {Persisted(w, v) : w \in ClockWindows, v \in ClockVariants}

ClockLists == UNION {[1..len -> ClockTrains] : len \in 1..MaxTrains}

TrainNos == <<"T1", "T2", "T3", "T4">>

WithNumbers(ts) == [i \in 1..Len(ts) |-> [ts[i] EXCEPT !.trainNo = TrainNos[i]]]

ClockDts == {1000, 5000}

InitClock ==
  /\ \E ts \in ClockLists : trains = WithNumbers(WithIds(ts))
  /\ announcements = <<>>
  /\ numPlatforms = MaxPlatforms
  /\ sim \in [virtualMinutes : ClockVMs, autoAdvance : {TRUE}, speed : {1}, lastTick : {0}]
  /\ nextId = Len(trains) + 1
  /\ lastOp = Op("load", 0)
  /\ ops = ClockOps
  /\ pc = "loaded"

NextClock ==
  \/ init
  \/ \E dt \in ClockDts : tick(dt)
  \/ \E checked \in BOOLEAN \ {sim.autoAdvance} : setAutoAdvance(checked)

SpecClock == InitClock /\ [][NextClock]_vars

----------------------------------------------------------------------------
(* The edit dialog: openEditTrain fills the form from the train, the     *)
(* submit handler parses the form and calls updateTrain. The stored      *)
(* times are drawn from three days around the displayed one.              *)

TimeInputs == (0 - DayMinutes)..(2 * DayMinutes - 1)

TimeTrain(k) ==
  [id |-> 1,
   trainNo |-> IF k < 0 THEN "NEG" ELSE IF k < DayMinutes THEN "DAY" ELSE "OVER",
   arrive |-> k, depart |-> k + 10, delayMin |-> 0, status |-> "ON_TIME",
   platform |-> <<>>, assignedPlatform |-> 0]

openEditTrain(t) ==
  [trainNo |-> t.trainNo, arrive |-> toHHMM(t.arrive), depart |-> toHHMM(t.depart),
   platform |-> t.platform, status |-> t.status, delay |-> t.delayMin]

submitEdit(id) ==
  LET i    == find(trains, id)
      data == openEditTrain(trains[i])
  IN  /\ i # 0
      /\ updateTrain(id, [trainNo |-> data.trainNo, arrive |-> toMinutes(data.arrive),
                          depart |-> toMinutes(data.depart), platform |-> data.platform,
                          status |-> data.status, delayMin |-> data.delay])

InitTime ==
  /\ \E k \in TimeInputs :
       trains = computeDerived(<<TimeTrain(k)>>, SeedBase, MinPlatformSetting)
  /\ announcements = <<>>
  /\ numPlatforms = MinPlatformSetting
  /\ sim = [virtualMinutes |-> SeedBase, autoAdvance |-> TRUE, speed |-> 1, lastTick |-> 0]
  /\ nextId = 2
  /\ lastOp = Op("init", 0)
  /\ ops = 1
  /\ pc = "ready"

NextTime == \E id \in {1} : submitEdit(id)

SpecTime == InitTime /\ [][NextTime]_vars

----------------------------------------------------------------------------
(* Properties *)

Window(tr) == timeWithDelay(tr)

(* The open-interval test on the effective windows of two trains. *)
Overlapping(a, b) ==
  Window(a).arrive < Window(b).depart /\ Window(b).arrive < Window(a).depart

Indices == 1..Len(trains)

(* A train that is in the store before and after a step. *)
Kept(i, j) == j \in 1..Len(trains') /\ trains'[j].id = trains[i].id

(* C1: after every recomputation pass each train's assigned platform is   *)
(* an integer in 1..N, whatever the number of trains and whatever manual  *)
(* platform was requested.                                                *)
C1_AssignedInRange ==
  pc = "ready" => \A i \in Indices : trains[i].assignedPlatform \in 1..numPlatforms

C1_Witness ==
  /\ pc = "ready"
  /\ Len(trains) > numPlatforms
  /\ \E i \in Indices :
       /\ trains[i].platform # <<>>
       /\ trains[i].platform[1] < 1
  /\ \E i \in Indices :
       /\ trains[i].platform # <<>>
       /\ trains[i].platform[1] > numPlatforms

(* The handler of the step writes the status of train tr itself, or       *)
(* replaces the whole list.                                               *)
WritesStatus(tr) ==
  \/ lastOp'.op \in {"clear", "seed"}
  \/ lastOp'.op \in {"update", "delay"} /\ lastOp'.id = tr.id

(* C2: a recomputation pass leaves a CANCELLED train CANCELLED, at every   *)
(* virtual minute: over every step whose handler does not itself write    *)
(* the train's status, a train that was CANCELLED is CANCELLED afterwards. *)
C2_PassKeepsCancelled ==
  [][\A i \in Indices :
       (trains[i].status = "CANCELLED" /\ ~WritesStatus(trains[i]))
         => \E j \in 1..Len(trains') : Kept(i, j) /\ trains'[j].status = "CANCELLED"]_vars

C2_Witness ==
  /\ lastOp.op = "tick"
  /\ \E i \in Indices :
       /\ trains[i].status = "CANCELLED"
       /\ sim.virtualMinutes >= trains[i].depart + trains[i].delayMin + BoardingWindow

(* C3: CANCELLED is terminal: a CANCELLED train stays CANCELLED over      *)
(* every later delay, cancel, add, setting change and clock tick (the     *)
(* store being cleared or reseeded and updates left aside).               *)
C3_CancelledIsTerminal ==
  [][\A i \in Indices :
       (trains[i].status = "CANCELLED" /\ lastOp'.op \notin {"clear", "seed", "update"})
         => \E j \in 1..Len(trains') : Kept(i, j) /\ trains'[j].status = "CANCELLED"]_vars

Reference(tr) ==
  tr.arrive = 480 /\ tr.depart = 500 /\ tr.delayMin = 0 /\ tr.status # "CANCELLED"

StatusAt(vm, st) ==
  sim.virtualMinutes = vm => \A i \in Indices : Reference(trains[i]) => trains[i].status = st

(* C4 as stated: for a non-cancelled train with arrive=480, depart=500,   *)
(* delayMin=0 a pass yields BOARDING at 495, DEPARTED at 500, ARRIVED at  *)
(* 494 and ON_TIME at 479.                                                *)
C4_BoundaryAsStated ==
  /\ StatusAt(495, "BOARDING")
  /\ StatusAt(500, "DEPARTED")
  /\ StatusAt(494, "ARRIVED")
  /\ StatusAt(479, "ON_TIME")

(* C4 amended: the same train is BOARDING at 495 and still BOARDING at    *)
(* 500, DEPARTED from 505 (depart + 5) on, ARRIVED at 494 and ON_TIME at  *)
(* 479.                                                                   *)
C4_BoundaryExact ==
  /\ StatusAt(495, "BOARDING")
  /\ StatusAt(500, "BOARDING")
  /\ StatusAt(505, "DEPARTED")
  /\ StatusAt(494, "ARRIVED")
  /\ StatusAt(479, "ON_TIME")

C4_Witness ==
  /\ sim.virtualMinutes = 500
  /\ \E i \in Indices : Reference(trains[i]) /\ trains[i].status = "BOARDING"

(* C5: recomputation is a fixed point: in every state an operation leaves *)
(* behind, one more pass at the same virtual minute changes no train's    *)
(* status and no train's assigned platform.                               *)
C5_RecomputeFixedPoint ==
  pc = "ready" =>
    LET again == computeDerived(trains, sim.virtualMinutes, numPlatforms)
    IN  \A i \in Indices : \A j \in 1..Len(again) :
          again[j].id = trains[i].id
            => /\ again[j].status = trains[i].status
               /\ again[j].assignedPlatform = trains[i].assignedPlatform

Requesting(p) == {i \in Indices : trains[i].platform = <<p>>}

ConflictFree(S) == \A i \in S : \A j \in S \ {i} : ~Overlapping(trains[i], trains[j])

(* C6: if the trains that request platform p (p in 1..N) have pairwise    *)
(* non-overlapping effective windows, each of them is assigned platform   *)
(* p, whatever the other trains of the store are.                         *)
C6_ManualHonoured ==
  pc = "ready" =>
    \A p \in 1..numPlatforms :
      ConflictFree(Requesting(p))
        => \A i \in Requesting(p) : trains[i].assignedPlatform = p

C6_Witness ==
  /\ pc = "ready"
  /\ \E p \in 1..numPlatforms :
       /\ Cardinality(Requesting(p)) >= 2
       /\ ConflictFree(Requesting(p))
       /\ \E k \in Indices \ Requesting(p) :
            \E i \in Requesting(p) : Overlapping(trains[k], trains[i])

SameRequest(i, j) ==
  /\ i # j
  /\ trains[i].platform # <<>>
  /\ trains[i].platform = trains[j].platform
  /\ Overlapping(trains[i], trains[j])

(* C7: two trains with the same manual request and overlapping effective  *)
(* windows are never placed by the manual path, and when they are the     *)
(* only trains and N >= 2 they end on different platforms.                *)
C7_ConflictGoesAutomatic ==
  pc = "ready" =>
    \A i \in Indices : \A j \in Indices :
      SameRequest(i, j)
        => /\ ~ManualHonored(trains, i)
           /\ ~ManualHonored(trains, j)
           /\ (Len(trains) = 2 /\ numPlatforms >= 2)
                => trains[i].assignedPlatform # trains[j].assignedPlatform

C7_Witness ==
  /\ pc = "ready"
  /\ Len(trains) = 2
  /\ numPlatforms >= 2
  /\ SameRequest(1, 2)

(* The instants at which the number of windows present can change, and   *)
(* the number of effective windows [arrive, depart] that hold instant t. *)
Instants == {Window(trains[i]).arrive : i \in Indices} \cup {Window(trains[i]).depart : i \in Indices}

Present(t) ==
  Cardinality({i \in Indices : Window(trains[i]).arrive <= t /\ t <= Window(trains[i]).depart})

AutomaticOnly ==
  /\ \A i \in Indices : trains[i].platform = <<>>
  /\ \A i \in Indices : trains[i].arrive <= trains[i].depart
  /\ \A t \in Instants : Present(t) <= numPlatforms

(* C8: with no manual request, arrive <= depart for every train and at no *)
(* instant more than N effective windows [arrive, depart] present, no two *)
(* trains whose windows overlap (open-interval test) share a platform.    *)
C8_NoDoubleBooking ==
  (pc = "ready" /\ AutomaticOnly) =>
    \A i \in Indices : \A j \in Indices \ {i} :
      Overlapping(trains[i], trains[j])
        => trains[i].assignedPlatform # trains[j].assignedPlatform

C8_Witness ==
  /\ pc = "ready"
  /\ AutomaticOnly
  /\ Len(trains) > numPlatforms
  /\ numPlatforms >= 2
  /\ \E i \in Indices : \E j \in Indices \ {i} : Overlapping(trains[i], trains[j])
  /\ \E i \in Indices : \E j \in Indices \ {i} :
       trains[i].assignedPlatform = trains[j].assignedPlatform

(* C9 as stated: after clear() the train list and the announcement log   *)
(* both have zero entries.                                                *)
C9_ClearEmptiesBoth ==
  lastOp.op = "clear" => Len(trains) = 0 /\ Len(announcements) = 0

(* C9 amended: after clear() the train list is empty and the log holds   *)
(* exactly one entry, the announcement of the clearing itself.            *)
C9_ClearLeavesOneEntry ==
  lastOp.op = "clear" =>
    /\ Len(trains) = 0
    /\ announcements = << [ts |-> toHHMM(sim.virtualMinutes), kind |-> "cleared",
                           trainNo |-> "", arg |-> <<>>] >>

C9_Witness ==
  /\ lastOp.op = "clear"
  /\ ops = MaxOps - 3
  /\ nextId = 3

Unknown(id) == \A i \in Indices : trains[i].id # id

(* C10: update, delay and cancel with an id that matches no train change  *)
(* neither the train list, nor the log, nor the settings, nor the clock.  *)
C10_UnknownIdNoOp ==
  [][(lastOp'.op \in {"update", "delay", "cancel"} /\ Unknown(lastOp'.id))
       => UNCHANGED <<trains, announcements, numPlatforms, sim>>]_vars

C10_Witness ==
  /\ lastOp.op \in {"update", "delay", "cancel"}
  /\ Unknown(lastOp.id)
  /\ Len(trains) > 0
  /\ Len(announcements) > 0

Train(no) == CHOOSE i \in Indices : trains[i].trainNo = no

TrainAfter(no) == CHOOSE j \in 1..Len(trains') : trains'[j].trainNo = no

(* The five reference trains as seed() leaves them with the clock at     *)
(* 08:00, and the single clock step to 08:21.                             *)
SeededAtEight ==
  /\ sim.virtualMinutes = 480
  /\ Len(trains) = 5
  /\ \A k \in 1..5 : \E i \in Indices :
       /\ trains[i].trainNo = SeedTrains(0)[k].trainNo
       /\ trains[i].arrive = SeedTrains(0)[k].arrive
       /\ trains[i].depart = SeedTrains(0)[k].depart
       /\ trains[i].delayMin = SeedTrains(0)[k].delayMin
       /\ trains[i].status = SeedTrains(0)[k].status

StepToEightTwentyOne ==
  SeededAtEight /\ lastOp'.op = "tick" /\ sim'.virtualMinutes = 501

(* C11 as stated: from the seeded trains at 08:00, one clock step to     *)
(* 08:21 leaves train 12001 DEPARTED and train 12002 BOARDING or ARRIVED. *)
C11_EndToEndAsStated ==
  [][StepToEightTwentyOne
       => /\ trains'[TrainAfter("12001")].status = "DEPARTED"
          /\ trains'[TrainAfter("12002")].status \in {"BOARDING", "ARRIVED"}]_vars

(* C11 amended: after that step train 12001 (08:10-08:20) is BOARDING,   *)
(* DEPARTED being reached at 08:25 only, and train 12002 is ARRIVED.      *)
C11_EndToEnd ==
  [][StepToEightTwentyOne
       => /\ trains'[TrainAfter("12001")].status = "BOARDING"
          /\ trains'[TrainAfter("12002")].status \in {"BOARDING", "ARRIVED"}]_vars

C11_Witness ==
  /\ lastOp.op = "tick"
  /\ sim.virtualMinutes = 501
  /\ Len(trains) = 5
  /\ trains[Train("12001")].status = "BOARDING"
  /\ trains[Train("12002")].status = "ARRIVED"

(* The log a step starts from: clearAll empties it before announcing. *)
LogBefore == IF lastOp'.op = "clear" THEN <<>> ELSE announcements

(* announcements' is LogBefore with k entries put at its head, in order, *)
(* and cut at the tail to the cap.                                        *)
Prepended(k) ==
  /\ Len(announcements') = Min(LogCap, Len(LogBefore) + k)
  /\ \A j \in (k + 1)..Len(announcements') : announcements'[j] = LogBefore[j - k]
  /\ \A j \in 1..Min(k, Len(announcements')) :
       announcements'[j].ts = toHHMM(sim'.virtualMinutes)

(* C12: the log never holds more than 6 entries and is newest first:     *)
(* every step puts its new entries at the head, keeps the earlier        *)
(* entries in their order, and drops only the oldest beyond the sixth.    *)
C12_LogBoundedNewestFirst ==
  [][/\ Len(announcements) <= 6
     /\ Len(announcements') <= 6
     /\ \E k \in 0..6 : Prepended(k)]_vars

(* A full log whose "scheduled" entry of the first addTrain has been      *)
(* dropped at the tail while the train is still in the store.             *)
C12_Witness ==
  /\ Len(announcements) = 6
  /\ Len(trains) > 0
  /\ \A j \in 1..6 : announcements[j].kind \notin {"scheduled", "cleared"}

(* HH:MM, zero-padded, of a minute of the day. *)
HHMM(n) ==
  <<Digit(n \div 600), Digit((n \div 60) % 10), ":", Digit((n % 60) \div 10), Digit(n % 10)>>

EightOClock == <<"0", "8", ":", "0", "0">>

(* C13: toMinutes(toHHMM(m)) = m for m in 0..1439; for every integer k,  *)
(* negative ones included, toHHMM(k) is the zero-padded HH:MM form of k   *)
(* mod 1440 taken in 0..1439; toHHMM(toMinutes("08:00")) = "08:00" and    *)
(* toHHMM(-5) = "23:55".                                                  *)
C13_TimeRoundTrip ==
  [][lastOp'.op = "update" =>
       \A i \in Indices : \A j \in 1..Len(trains') : Kept(i, j) =>
         LET k == trains[i].arrive
         IN  /\ k \in 0..1439 => trains'[j].arrive = k /\ toMinutes(toHHMM(k)) = k
             /\ toHHMM(k) = HHMM(k % 1440)
             /\ trains'[j].arrive = k % 1440
             /\ toHHMM(toMinutes(EightOClock)) = EightOClock
             /\ toHHMM(0 - 5) = <<"2", "3", ":", "5", "5">>]_vars

(* The edit of a train stored with arrive = -5: the form showed 23:55.   *)
C13_Witness ==
  /\ lastOp.op = "update"
  /\ Len(trains) = 1
  /\ trains[1].trainNo = "NEG"
  /\ trains[1].arrive = 1435
  /\ trains[1].depart = 5

(* The effective window of a train, from its fields as they are before a *)
(* pass: shifted by delayMin for a train whose status is DELAYED.         *)
Shift(tr) == IF tr.status = "DELAYED" THEN tr.delayMin ELSE 0

InWindow(lo, vm, hi) == lo <= vm /\ vm < hi

FirstMatch(tr, vm) ==
  LET a == tr.arrive + Shift(tr)
      d == tr.depart + Shift(tr)
  IN  IF vm >= d + 5 THEN "DEPARTED"
      ELSE IF InWindow(d - 5, vm, d + 5) THEN "BOARDING"
      ELSE IF InWindow(a, vm, d - 5) THEN "ARRIVED"
      ELSE IF tr.delayMin > 0 THEN "DELAYED"
      ELSE "ON_TIME"

(* A step that runs one recomputation pass and writes no train field     *)
(* before it.                                                             *)
PassOnly == lastOp'.op = "init" \/ (lastOp'.op = "tick" /\ sim.autoAdvance)

(* C14: one pass sets the status of every non-cancelled train by the     *)
(* first matching rule, on the effective window (a, d) taken from the     *)
(* status before the pass: DEPARTED if vm >= d+5, else BOARDING if        *)
(* d-5 <= vm < d+5, else ARRIVED if a <= vm < d-5, else DELAYED if        *)
(* delayMin > 0, else ON_TIME.                                            *)
C14_FirstMatchStatus ==
  [][PassOnly =>
       \A i \in Indices : trains[i].status # "CANCELLED" =>
         \E j \in 1..Len(trains') :
           /\ Kept(i, j)
           /\ trains'[j].status = FirstMatch(trains[i], sim'.virtualMinutes)]_vars

(* A tick at which a delayed train reaches the arrival of its shifted    *)
(* window and another train is past its boarding window.                  *)
C14_Witness ==
  /\ lastOp.op = "tick"
  /\ \E i \in Indices :
       /\ trains[i].delayMin > 0
       /\ trains[i].status = "ARRIVED"
       /\ sim.virtualMinutes = trains[i].arrive + trains[i].delayMin
  /\ \E i \in Indices : trains[i].status = "DEPARTED"

(* The manual path takes train i: it carries a request and no other     *)
(* train carries the same request with an overlapping window.             *)
Honoured(i) ==
  /\ trains[i].platform # <<>>
  /\ \A j \in Indices \ {i} :
       ~(trains[j].platform = trains[i].platform /\ Overlapping(trains[i], trains[j]))

(* The list in the order load() restored it (ids are the positions). *)
Restored == [k \in Indices |-> trains[CHOOSE i \in Indices : trains[i].id = k]]

Without(ts, id) == SelectSeq(ts, LAMBDA t : t.id # id)

PlatformOf(ts, id) == ts[CHOOSE k \in 1..Len(ts) : ts[k].id = id].assignedPlatform

Before(k, j) ==
  \/ Window(trains[k]).arrive < Window(trains[j]).arrive
  \/ Window(trains[k]).arrive = Window(trains[j]).arrive /\ trains[k].id < trains[j].id

(* Platform q is taken at the arrival of train j by a train handled      *)
(* before it.                                                             *)
Busy(q, j) ==
  \E k \in Indices :
    /\ Before(k, j)
    /\ trains[k].assignedPlatform = q
    /\ Window(trains[k]).depart > Window(trains[j]).arrive

C16_DelayedFollowsShiftedWindow ==
  pc = "ready" =>
    \A i \in Indices :
      LET t == trains[i]
          D == t.delayMin
      IN  D > 0 =>
            /\ t.status = "ARRIVED" => sim.virtualMinutes >= t.arrive + D
            /\ t.status = "BOARDING" => sim.virtualMinutes >= t.depart + D - 5
            /\ t.status = "DEPARTED" => sim.virtualMinutes >= t.depart + D + 5

(* C17: a tick while auto-advance is off changes nothing but lastTick,   *)
(* which is set to the time of that tick: the clock, every status, every  *)
(* assigned platform and the log stay as they are. So the first tick      *)
(* after the switch is turned on again advances the clock by the time     *)
(* since the tick just before it, times the speed.                        *)
C17_PausedTickStampsOnly ==
  [][lastOp'.op = "tick" =>
       /\ sim'.lastTick - sim.lastTick \in ClockDts \cup TickDts
       /\ IF sim.autoAdvance
          THEN sim'.virtualMinutes =
                 (sim.virtualMinutes
                    + ((sim'.lastTick - sim.lastTick) \div 1000) * sim.speed) % 1440
          ELSE /\ sim' = [sim EXCEPT !.lastTick = sim'.lastTick]
               /\ UNCHANGED <<trains, announcements, numPlatforms>>]_vars

(* The switch was off during a tick of 5 s and on again for the next     *)
(* tick of 1 s: the clock moved by one minute, from 479 to 480.           *)
C17_Witness ==
  /\ lastOp.op = "tick"
  /\ sim.autoAdvance
  /\ sim.virtualMinutes = 480
  /\ sim.lastTick = 6000
  /\ Len(trains) > 0

(* At no instant more than N effective windows [arrive, depart]. *)
DepthWithin == \A t \in Instants : Present(t) <= numPlatforms

OnRequested(i) ==
  trains[i].platform # <<>> /\ trains[i].assignedPlatform = trains[i].platform[1]

(* C18 as stated: when at most N windows overlap at any instant, a train *)
(* placed on the platform it requests shares it with no train whose       *)
(* window overlaps its own.                                               *)
C18_RequestedPlatformExclusive ==
  (pc = "ready" /\ DepthWithin) =>
    \A i \in Indices : OnRequested(i) =>
      \A j \in Indices \ {i} :
        Overlapping(trains[i], trains[j])
          => trains[j].assignedPlatform # trains[i].assignedPlatform

(* C18 amended: under the same condition, a train placed on the platform *)
(* it requests shares it with no train that carries the same request and  *)
(* whose window overlaps its own.                                         *)
C18_NoSharingAmongSameRequest ==
  (pc = "ready" /\ DepthWithin) =>
    \A i \in Indices : OnRequested(i) =>
      \A j \in Indices \ {i} :
        (trains[j].platform = trains[i].platform /\ Overlapping(trains[i], trains[j]))
          => trains[j].assignedPlatform # trains[i].assignedPlatform

(* Two trains with the same request and overlapping windows, one of them *)
(* on the requested platform, next to a third train that is placed        *)
(* by the manual path.                                                    *)
C18_Witness ==
  /\ pc = "ready"
  /\ DepthWithin
  /\ \E i \in Indices : \E j \in Indices \ {i} :
       /\ OnRequested(i)
       /\ trains[j].platform = trains[i].platform
       /\ Overlapping(trains[i], trains[j])
       /\ trains[j].assignedPlatform # trains[i].assignedPlatform
  /\ \E k \in Indices : Honoured(k)

(* The order {ON_TIME, DELAYED} < ARRIVED < BOARDING < DEPARTED. *)
Rank(st) ==
  IF st \in {"ON_TIME", "DELAYED"} THEN 0
  ELSE IF st = "ARRIVED" THEN 1
  ELSE IF st = "BOARDING" THEN 2
  ELSE 3

(* C19: over ticks that move the clock forward without passing 1440,     *)
(* and no other operation, the status of a train that is not CANCELLED    *)
(* never goes back in the order                                           *)
(* {ON_TIME, DELAYED} < ARRIVED < BOARDING < DEPARTED.                    *)
C19_StatusNeverRegresses ==
  [][(lastOp'.op = "tick" /\ sim'.virtualMinutes >= sim.virtualMinutes) =>
       \A i \in Indices : trains[i].status # "CANCELLED" =>
         \E j \in 1..Len(trains') :
           /\ Kept(i, j)
           /\ trains'[j].status # "CANCELLED"
           /\ Rank(trains'[j].status) >= Rank(trains[i].status)]_vars

(* A delayed train that ticks have taken to DEPARTED, ahead of its       *)
(* shifted window, next to a train on time that is DEPARTED as well.      *)
C19_Witness ==
  /\ lastOp.op = "tick"
  /\ \E i \in Indices :
       /\ trains[i].delayMin > 0
       /\ trains[i].status = "DEPARTED"
       /\ sim.virtualMinutes < trains[i].depart + trains[i].delayMin + 5
  /\ \E i \in Indices : trains[i].delayMin = 0 /\ trains[i].status = "DEPARTED"

(* The trains the entry at position e of the new log names. *)
Named(e) == {j \in 1..Len(trains') : trains'[j].trainNo = announcements'[e].trainNo}

(* C20: a tick never emits a boarding or departure announcement for a    *)
(* CANCELLED train: the entries a tick puts at the head of the log name   *)
(* trains that are not cancelled.                                         *)
C20_NoAnnouncementForCancelled ==
  [][lastOp'.op = "tick" =>
       \E k \in 0..6 :
         /\ Prepended(k)
         /\ \A e \in 1..Min(k, Len(announcements')) :
              \A j \in Named(e) : trains'[j].status # "CANCELLED"]_vars

====
